---- MODULE Spec2Model ----
(***************************************************************************)
(* Model of astroquery/mast/core.py: the class MastQueryWithLogin, a       *)
(* facade over a session, two query connections, an authentication         *)
(* delegate (MastAuth) and an optional cloud delegate (CloudAccess).       *)
(*                                                                         *)
(* Python scalars (None, True, False, strings) are modelled by strings     *)
(* holding their literal; Python objects held in attributes are records    *)
(* [type, id, session, args]: the class, the identity of the instance, the *)
(* identity of the session it was built on (0: none) and the other         *)
(* constructor arguments.  The delegates' own code is not part of the      *)
(* file: what a delegate call returns or raises is an input of the action. *)
(***************************************************************************)
EXTENDS Integers, Sequences, FiniteSets, TLC

VARIABLES
    _session,                 \* self._session
    _portal_api_connection,   \* self._portal_api_connection
    _service_api_connection,  \* self._service_api_connection
    _auth_obj,                \* self._auth_obj
    _authenticated,           \* self._authenticated
    _cloud_connection,        \* self._cloud_connection
    next_id,                  \* identity given to the next object constructed
    auth_logged,              \* the delegate's last login outcome, cleared by its logout
    last,                     \* the last call: method, arguments, what it did, its outcome
    prev                      \* the call before the last one: its method and how it ended

vars == <<_session, _portal_api_connection, _service_api_connection, _auth_obj,
          _authenticated, _cloud_connection, next_id, auth_logged, last, prev>>

facade == <<_session, _portal_api_connection, _service_api_connection, _auth_obj,
            _authenticated, _cloud_connection>>

----------------------------------------------------------------------------
(* Bounds *)

\* CloudAccess objects that may be constructed after the facade.
MaxCloud == 2

----------------------------------------------------------------------------
(* Python values *)

None == "None"
True == "True"
False == "False"

\* bool(x) of a scalar.
Truthy(x) == x \notin {None, False, ""}

\* `not x` of a scalar.
Not(x) == IF Truthy(x) THEN False ELSE True

Obj(type, id, session, args) ==
    [type |-> type, id |-> id, session |-> session, args |-> args]

NoneObj == Obj("NoneType", 0, 0, <<>>)
FalseObj == Obj("bool", 0, 0, <<False>>)

----------------------------------------------------------------------------
(* Inputs *)

Tokens == {None, "", "tok"}
LoginTokens == {None, "tok"}
Bools == {True, False}
OptBools == {None, True, False}
Providers == {"AWS", "GCP"}
Profiles == {None, "dev"}
ObjectNames == {"M31", "nowhere"}

Return(v) == [kind |-> "return", val |-> v]
Raise(e) == [kind |-> "raise", val |-> e]
NoCall == [kind |-> "none", val |-> None]

\* What a delegate call can do: return a value or raise.
LoginOutcomes == {Return(True), Return(False), Raise("HTTPError")}
InfoOutcomes == {Return("{anon: False}"), Raise("HTTPError")}
LogoutOutcomes == {Return(None), Raise("HTTPError")}
CloudOutcomes == {Return("CloudAccess"), Raise("ImportError")}
ResolveOutcomes == {Return("SkyCoord"), Raise("ResolverError"), Raise("HTTPError")}

----------------------------------------------------------------------------
(* What a call did, in order *)

Call(what, args) == [ev |-> "call", what |-> what, args |-> args]
Warn(category) == [ev |-> "warn", what |-> category, args |-> <<>>]
Set(attr) == [ev |-> "set", what |-> attr, args |-> <<>>]

DeprecationWarning == Warn("AstropyDeprecationWarning")

Done(op, args, trace, dres, res) ==
    [op |-> op, args |-> args, trace |-> trace, dres |-> dres, res |-> res]

Summary(call) == [op |-> call.op, kind |-> call.res.kind]

----------------------------------------------------------------------------
(* Construction: MastQueryWithLogin.__init__ *)

\* super().__init__(): the base class opens the session and starts the
\* facade not authenticated.
BaseSession == Obj("Session", 1, 0, <<>>)
BaseAuthenticated == FalseObj

PortalAPI(session) == Obj("PortalAPI", 2, session.id, <<>>)
ServiceAPI(session) == Obj("ServiceAPI", 3, session.id, <<>>)

\* MastAuth(session, token) and MastAuth(session).
MastAuth(session, token) == Obj("MastAuth", 4, session.id, <<token>>)
MastAuthAnonymous(session) == Obj("MastAuth", 4, session.id, <<>>)

\* CloudAccess(provider, profile, verbose), the instance numbered id.
CloudAccess(id, provider, profile, verbose) ==
    Obj("CloudAccess", id, 0, <<provider, profile, verbose>>)

\* The state __init__(mast_token) leaves.  eager_login is what the delegate's
\* own login attempt gave when it was constructed with a token.
__init__(mast_token, eager_login) ==
    /\ _session = BaseSession
    /\ _portal_api_connection = PortalAPI(BaseSession)
    /\ _service_api_connection = ServiceAPI(BaseSession)
    /\ IF Truthy(mast_token)
       THEN /\ _auth_obj = MastAuth(BaseSession, mast_token)
            /\ _authenticated = MastAuth(BaseSession, mast_token)
            /\ auth_logged = (eager_login = True)
       ELSE /\ _auth_obj = MastAuthAnonymous(BaseSession)
            /\ _authenticated = BaseAuthenticated
            /\ auth_logged = FALSE
    /\ _cloud_connection = NoneObj
    /\ next_id = MastAuthAnonymous(BaseSession).id + 1
    /\ last = Done("__init__", <<mast_token>>,
                   IF Truthy(mast_token)
                   THEN <<Call("MastAuth", <<"_session", mast_token>>),
                          Set("_authenticated"), Set("_auth_obj"),
                          Set("_cloud_connection")>>
                   ELSE <<Call("MastAuth", <<"_session">>),
                          Set("_auth_obj"), Set("_cloud_connection")>>,
                   IF Truthy(mast_token) THEN Return(eager_login) ELSE NoCall,
                   Return(None))
    /\ prev = [op |-> "", kind |-> "none"]

Init == \E mast_token \in Tokens, eager_login \in Bools :
            __init__(mast_token, eager_login)

----------------------------------------------------------------------------
(* Login: MastQueryWithLogin._login *)

\* A login that hands store_token and reenter_token over in the wrong order.
LoginCallSwapped(token, store_token, reenter_token) ==
    Call("_auth_obj.login", <<token, reenter_token, store_token>>)

\* self._auth_obj.login(token, store_token, reenter_token)
LoginCall(token, store_token, reenter_token) ==
    Call("_auth_obj.login", <<token, store_token, reenter_token>>)

\* `return <delegate call>`: the method returns what the delegate returned
\* and raises what the delegate raised.
Propagate(outcome) == outcome

_login(token, store_token, reenter_token, outcome) ==
    /\ last' = Done("_login", <<token, store_token, reenter_token>>,
                    <<LoginCall(token, store_token, reenter_token)>>,
                    outcome, Propagate(outcome))
    /\ auth_logged' = (outcome = Return(True))
    /\ prev' = Summary(last)
    /\ UNCHANGED <<facade, next_id>>

----------------------------------------------------------------------------
(* The deprecated token accessor: MastQueryWithLogin.get_token *)

\* An accessor that still hands out the token the delegate was built with.
get_token_stored ==
    /\ last' = Done("get_token", <<>>, <<DeprecationWarning>>, NoCall,
                    Return(IF _auth_obj.args = <<>> THEN None ELSE _auth_obj.args[1]))
    /\ prev' = Summary(last)
    /\ UNCHANGED <<facade, next_id, auth_logged>>

get_token ==
    /\ last' = Done("get_token", <<>>, <<DeprecationWarning>>, NoCall, Return(None))
    /\ prev' = Summary(last)
    /\ UNCHANGED <<facade, next_id, auth_logged>>

----------------------------------------------------------------------------
(* Session info: MastQueryWithLogin.session_info *)

\* The warnings of the deprecated-argument handling.
SilentWarnings(silent, verbose) ==
    IF silent # None /\ verbose # None THEN <<DeprecationWarning>>
    ELSE IF silent # None THEN <<DeprecationWarning>>
    ELSE <<>>

\* A handling that forgets to negate `silent`.
EffectiveVerboseNotNegated(silent, verbose) ==
    IF silent # None /\ verbose # None THEN verbose
    ELSE IF silent # None THEN silent
    ELSE IF silent = None /\ verbose = None THEN True
    ELSE verbose

\* The value of `verbose` after the deprecated-argument handling.
EffectiveVerbose(silent, verbose) ==
    IF silent # None /\ verbose # None THEN verbose
    ELSE IF silent # None THEN Not(silent)
    ELSE IF silent = None /\ verbose = None THEN True
    ELSE verbose

session_info(silent, verbose, outcome) ==
    /\ last' = Done("session_info", <<silent, verbose>>,
                    SilentWarnings(silent, verbose) \o
                    <<Call("_auth_obj.session_info",
                           <<EffectiveVerbose(silent, verbose)>>)>>,
                    outcome, Propagate(outcome))
    /\ prev' = Summary(last)
    /\ UNCHANGED <<facade, next_id, auth_logged>>

----------------------------------------------------------------------------
(* Logout: MastQueryWithLogin.logout *)

\* A logout that never clears the flag.
LogoutFlagKept(outcome, flag) == flag

\* A logout that clears the flag before (or whatever comes of) the delegate's
\* logout.
LogoutFlagCleared(outcome, flag) == FalseObj

\* The flag after logout(): the delegate's logout runs first, and the
\* assignment is reached only when it returns.
LogoutFlag(outcome, flag) == IF outcome.kind = "raise" THEN flag ELSE FalseObj

\* A logout that also drops the cloud delegate.
logout_dropping_cloud(outcome) ==
    /\ _authenticated' = LogoutFlag(outcome, _authenticated)
    /\ _cloud_connection' = NoneObj
    /\ last' = Done("logout", <<>>,
                    IF outcome.kind = "raise"
                    THEN <<Call("_auth_obj.logout", <<>>)>>
                    ELSE <<Call("_auth_obj.logout", <<>>), Set("_authenticated")>>,
                    outcome,
                    IF outcome.kind = "raise" THEN outcome ELSE Return(None))
    /\ auth_logged' = IF outcome.kind = "raise" THEN auth_logged ELSE FALSE
    /\ prev' = Summary(last)
    /\ UNCHANGED <<_session, _portal_api_connection, _service_api_connection,
                   _auth_obj, next_id>>

logout(outcome) ==
    /\ _authenticated' = LogoutFlag(outcome, _authenticated)
    /\ last' = Done("logout", <<>>,
                    IF outcome.kind = "raise"
                    THEN <<Call("_auth_obj.logout", <<>>)>>
                    ELSE <<Call("_auth_obj.logout", <<>>), Set("_authenticated")>>,
                    outcome,
                    IF outcome.kind = "raise" THEN outcome ELSE Return(None))
    /\ auth_logged' = IF outcome.kind = "raise" THEN auth_logged ELSE FALSE
    /\ prev' = Summary(last)
    /\ UNCHANGED <<_session, _portal_api_connection, _service_api_connection,
                   _auth_obj, _cloud_connection, next_id>>

----------------------------------------------------------------------------
(* Cloud dataset toggling: enable_cloud_dataset, disable_cloud_dataset and *)
(* their deprecated aliases                                                *)

\* The defaults of enable_cloud_dataset(provider="AWS", profile=None, verbose=True).
DefaultProvider == "AWS"
DefaultProfile == None
DefaultVerbose == True

\* The number of CloudAccess objects constructed so far.
CloudBuilt == next_id - (_auth_obj.id + 1)

\* The body of enable_cloud_dataset, run by the method `op` called with
\* `args` after it emitted `warnings`: CloudAccess(...) is constructed, and
\* the attribute is assigned only when the constructor returns.
EnableCloud(op, args, warnings, provider, profile, verbose, outcome) ==
    /\ CloudBuilt < MaxCloud
    /\ IF outcome.kind = "raise"
       THEN /\ UNCHANGED <<_cloud_connection, next_id>>
            /\ last' = Done(op, args,
                            warnings \o <<Call("CloudAccess", <<provider, profile, verbose>>)>>,
                            outcome, outcome)
       ELSE /\ _cloud_connection' = CloudAccess(next_id, provider, profile, verbose)
            /\ next_id' = next_id + 1
            /\ last' = Done(op, args,
                            warnings \o <<Call("CloudAccess", <<provider, profile, verbose>>),
                                          Set("_cloud_connection")>>,
                            outcome, Return(None))
    /\ prev' = Summary(last)
    /\ UNCHANGED <<_session, _portal_api_connection, _service_api_connection,
                   _auth_obj, _authenticated, auth_logged>>

enable_cloud_dataset(provider, profile, verbose, outcome) ==
    EnableCloud("enable_cloud_dataset", <<provider, profile, verbose>>, <<>>,
                provider, profile, verbose, outcome)

\* An alias that enables the cloud dataset quietly.
enable_s3_hst_dataset_quiet(outcome) ==
    EnableCloud("enable_s3_hst_dataset", <<>>, <<DeprecationWarning>>,
                DefaultProvider, DefaultProfile, False, outcome)

enable_s3_hst_dataset(outcome) ==
    EnableCloud("enable_s3_hst_dataset", <<>>, <<DeprecationWarning>>,
                DefaultProvider, DefaultProfile, DefaultVerbose, outcome)

\* A disable that leaves the cloud delegate in place.
DisableCloudKept(op, warnings) ==
    /\ last' = Done(op, <<>>, warnings \o <<Set("_cloud_connection")>>,
                    NoCall, Return(None))
    /\ prev' = Summary(last)
    /\ UNCHANGED <<facade, next_id, auth_logged>>

\* The body of disable_cloud_dataset, run by the method `op` after it
\* emitted `warnings`.
DisableCloud(op, warnings) ==
    /\ _cloud_connection' = NoneObj
    /\ last' = Done(op, <<>>, warnings \o <<Set("_cloud_connection")>>,
                    NoCall, Return(None))
    /\ prev' = Summary(last)
    /\ UNCHANGED <<_session, _portal_api_connection, _service_api_connection,
                   _auth_obj, _authenticated, next_id, auth_logged>>

disable_cloud_dataset == DisableCloud("disable_cloud_dataset", <<>>)

disable_s3_hst_dataset == DisableCloud("disable_s3_hst_dataset", <<DeprecationWarning>>)

----------------------------------------------------------------------------
(* Object resolution: MastQueryWithLogin.resolve_object *)

resolve_object(objectname, outcome) ==
    /\ last' = Done("resolve_object", <<objectname>>,
                    <<Call("utils.resolve_object", <<objectname>>)>>,
                    outcome, Propagate(outcome))
    /\ prev' = Summary(last)
    /\ UNCHANGED <<facade, next_id, auth_logged>>

----------------------------------------------------------------------------
(* The facade's calls, in any order with any arguments *)

Next ==
    \/ \E token \in LoginTokens, store_token \in Bools, reenter_token \in Bools,
          outcome \in LoginOutcomes :
            _login(token, store_token, reenter_token, outcome)
    \/ get_token
    \/ \E silent \in OptBools, verbose \in OptBools, outcome \in InfoOutcomes :
            session_info(silent, verbose, outcome)
    \/ \E outcome \in LogoutOutcomes : logout(outcome)
    \/ \E outcome \in CloudOutcomes : enable_s3_hst_dataset(outcome)
    \/ \E provider \in Providers, profile \in Profiles, verbose \in Bools,
          outcome \in CloudOutcomes :
            enable_cloud_dataset(provider, profile, verbose, outcome)
    \/ disable_s3_hst_dataset
    \/ disable_cloud_dataset
    \/ \E objectname \in ObjectNames, outcome \in ResolveOutcomes :
            resolve_object(objectname, outcome)

Spec == Init /\ [][Next]_vars

----------------------------------------------------------------------------
(* Properties *)

\* The delegate calls and the warnings of a call, in order.
Calls(call) == SelectSeq(call.trace, LAMBDA e : e.ev = "call")
Warnings(call) == SelectSeq(call.trace, LAMBDA e : e.ev = "warn")

\* The attribute value True, and bool(o) of an attribute value: None and False
\* are falsy, an instance of a class without __bool__ or __len__ is truthy.
TrueObj == Obj("bool", 0, 0, <<True>>)
TruthyObj(o) == o \notin {NoneObj, FalseObj}

EnableOps == {"enable_cloud_dataset", "enable_s3_hst_dataset"}
DisableOps == {"disable_cloud_dataset", "disable_s3_hst_dataset"}

\* C1: session_info calls the delegate's session_info exactly once; with both
\* silent and verbose set it passes verbose and warns; with only silent set it
\* passes (not silent) and warns; with neither set it passes True and does not
\* warn; with only verbose set it passes verbose and does not warn.  What the
\* delegate returns is what session_info returns.
C1_SessionInfoArguments ==
    last.op = "session_info" =>
        LET silent == last.args[1]
            verbose == last.args[2]
            passed == Calls(last)
        IN  /\ Len(passed) = 1
            /\ passed[1].what = "_auth_obj.session_info"
            /\ Len(passed[1].args) = 1
            /\ (silent # None /\ verbose # None =>
                    /\ passed[1].args[1] = verbose
                    /\ Warnings(last) = <<Warn("AstropyDeprecationWarning")>>)
            /\ (silent # None /\ verbose = None =>
                    /\ passed[1].args[1] = (IF silent = True THEN False ELSE True)
                    /\ Warnings(last) = <<Warn("AstropyDeprecationWarning")>>)
            /\ (silent = None /\ verbose = None =>
                    /\ passed[1].args[1] = True
                    /\ Warnings(last) = <<>>)
            /\ (silent = None /\ verbose # None =>
                    /\ passed[1].args[1] = verbose
                    /\ Warnings(last) = <<>>)
            /\ last.res = last.dres

\* session_info(silent=True) has returned the delegate's result.
C1_Witness ==
    /\ last.op = "session_info"
    /\ last.args = <<True, None>>
    /\ last.res = Return("{anon: False}")

\* C2: right after construction with a token the authenticated flag is the
\* boolean True and the auth delegate was constructed with that token; right
\* after construction without a token (None or empty) the flag is False and the
\* delegate is anonymous; the cloud delegate is absent in both cases.
C2_ConstructionState ==
    last.op = "__init__" =>
        LET mast_token == last.args[1]
        IN  /\ (mast_token \notin {None, ""} =>
                    /\ _authenticated = TrueObj
                    /\ _auth_obj.type = "MastAuth"
                    /\ _auth_obj.args = <<mast_token>>)
            /\ (mast_token \in {None, ""} =>
                    /\ _authenticated = FalseObj
                    /\ _auth_obj.type = "MastAuth"
                    /\ _auth_obj.args = <<>>)
            /\ _cloud_connection = NoneObj

C4_DisableAfterEnable ==
    [][last'.op = "disable_cloud_dataset" =>
          /\ _cloud_connection' = NoneObj
          /\ last'.res = Return(None)
          /\ (last.op = "disable_cloud_dataset" => facade' = facade)]_vars

\* disable_cloud_dataset has run right after an enable_cloud_dataset that
\* stored a delegate.
C4_Witness ==
    /\ last.op = "disable_cloud_dataset"
    /\ prev = [op |-> "enable_cloud_dataset", kind |-> "return"]
    /\ _cloud_connection = NoneObj

\* C5: enable_s3_hst_dataset leaves the facade as enable_cloud_dataset("AWS",
\* None, True) leaves it (the same CloudAccess call, the same attribute stored,
\* nothing else changed) and disable_s3_hst_dataset leaves it as
\* disable_cloud_dataset does; each alias differs by one deprecation warning,
\* emitted first.
C5_AliasesForward ==
    [][/\ last'.op = "enable_s3_hst_dataset" =>
            /\ <<_session', _portal_api_connection', _service_api_connection',
                 _auth_obj', _authenticated'>>
               = <<_session, _portal_api_connection, _service_api_connection,
                   _auth_obj, _authenticated>>
            /\ IF last'.dres.kind = "raise"
               THEN /\ _cloud_connection' = _cloud_connection
                    /\ last'.res = last'.dres
                    /\ last'.trace =
                         <<Warn("AstropyDeprecationWarning"),
                           Call("CloudAccess", <<"AWS", "None", "True">>)>>
               ELSE /\ _cloud_connection' =
                         Obj("CloudAccess", next_id, 0, <<"AWS", "None", "True">>)
                    /\ last'.res = Return("None")
                    /\ last'.trace =
                         <<Warn("AstropyDeprecationWarning"),
                           Call("CloudAccess", <<"AWS", "None", "True">>),
                           Set("_cloud_connection")>>
       /\ last'.op = "disable_s3_hst_dataset" =>
            /\ <<_session', _portal_api_connection', _service_api_connection',
                 _auth_obj', _authenticated'>>
               = <<_session, _portal_api_connection, _service_api_connection,
                   _auth_obj, _authenticated>>
            /\ _cloud_connection' = NoneObj
            /\ last'.res = Return("None")
            /\ last'.trace = <<Warn("AstropyDeprecationWarning"),
                               Set("_cloud_connection")>>]_vars

\* The alias has stored a cloud delegate over one stored by
\* enable_cloud_dataset.
C5_Witness ==
    /\ last.op = "enable_s3_hst_dataset"
    /\ last.res.kind = "return"
    /\ prev = [op |-> "enable_cloud_dataset", kind |-> "return"]
    /\ _cloud_connection.args = <<"AWS", "None", "True">>

\* C6: get_token returns None, emits one deprecation warning, calls no
\* delegate and leaves the facade (the flag and the cloud delegate included)
\* as it was, whatever the state it is called in.
C6_GetTokenInert ==
    [][last'.op = "get_token" =>
          /\ last'.res = Return("None")
          /\ Warnings(last') = <<Warn("AstropyDeprecationWarning")>>
          /\ Calls(last') = <<>>
          /\ last'.dres.kind = "none"
          /\ facade' = facade]_vars

\* get_token has been called on a facade that was constructed with a token
\* and holds a cloud delegate.
C6_Witness ==
    /\ last.op = "get_token"
    /\ _auth_obj.args = <<"tok">>
    /\ TruthyObj(_authenticated)
    /\ _cloud_connection # NoneObj

\* C7: _login calls the delegate's login exactly once, with token,
\* store_token and reenter_token as given and in that order, and returns (or
\* raises) exactly what the delegate did.
C7_LoginDelegates ==
    last.op = "_login" =>
        /\ Len(last.args) = 3
        /\ last.trace = <<Call("_auth_obj.login",
                               <<last.args[1], last.args[2], last.args[3]>>)>>
        /\ last.res = last.dres

\* _login(token, store_token=True, reenter_token=False) has returned the
\* delegate's failure signal.
C7_Witness ==
    /\ last.op = "_login"
    /\ last.args = <<"tok", True, False>>
    /\ last.res = Return(False)

\* C8: the authenticated flag is true exactly when the delegate's most recent
\* login attempt (at construction with a token, or through _login) succeeded
\* and no logout came after it.
C8_FlagReflectsLogin == TruthyObj(_authenticated) <=> auth_logged

\* C9: no call replaces the session, the two connections or the auth
\* delegate, and all three delegates stay on the session of construction;
\* enabling and disabling the cloud dataset never change the flag; logout
\* never changes the cloud delegate; _login, session_info, get_token and
\* resolve_object change neither; the facade holds at most the CloudAccess
\* constructed last, a successful enable replacing the one held.
C9_Frame ==
    [][/\ <<_session', _portal_api_connection', _service_api_connection', _auth_obj'>>
          = <<_session, _portal_api_connection, _service_api_connection, _auth_obj>>
       /\ _portal_api_connection'.session = _session'.id
       /\ _service_api_connection'.session = _session'.id
       /\ _auth_obj'.session = _session'.id
       /\ (last'.op \in EnableOps \cup DisableOps => _authenticated' = _authenticated)
       /\ (last'.op = "logout" => _cloud_connection' = _cloud_connection)
       /\ (last'.op \in {"_login", "session_info", "get_token", "resolve_object"} =>
              /\ _authenticated' = _authenticated
              /\ _cloud_connection' = _cloud_connection)
       /\ (last'.op \in EnableOps /\ last'.res.kind = "return" =>
              /\ _cloud_connection'.type = "CloudAccess"
              /\ _cloud_connection' # _cloud_connection
              /\ _cloud_connection'.id = next_id)
       /\ (_cloud_connection' # NoneObj =>
              /\ _cloud_connection'.type = "CloudAccess"
              /\ _cloud_connection'.id = next_id' - 1)]_vars

\* A second enable_cloud_dataset has replaced the delegate the first stored,
\* on a facade whose flag is set.
C9_Witness ==
    /\ last.op = "enable_cloud_dataset"
    /\ last.res.kind = "return"
    /\ prev = [op |-> "enable_cloud_dataset", kind |-> "return"]
    /\ CloudBuilt = 2
    /\ _cloud_connection.id = next_id - 1
    /\ TruthyObj(_authenticated)

\* C10: when the delegate call of _login, session_info, logout,
\* enable_cloud_dataset or resolve_object raises, the method raises that same
\* error after that one delegate call and the facade is as before the call
\* (the flag after a failing logout, the cloud delegate after a failing
\* enable included).
C10_FailurePropagates ==
    [][(/\ last'.op \in {"_login", "session_info", "logout",
                         "enable_cloud_dataset", "resolve_object"}
        /\ last'.dres.kind = "raise") =>
          /\ last'.res = last'.dres
          /\ Len(Calls(last')) = 1
          /\ facade' = facade]_vars

\* A logout whose delegate call raised has left the flag set and the cloud
\* delegate held.
C10_Witness ==
    /\ last.op = "logout"
    /\ last.res = Raise("HTTPError")
    /\ TruthyObj(_authenticated)
    /\ _cloud_connection # NoneObj

====
